---- MODULE Spec2Model ----
(***************************************************************************)
(* A model of pywintrbl: the registry-path helpers (registry_helpers.py),  *)
(* the three discovery scanners, the PATH scanner and the report run       *)
(* (__main__.py).                                                          *)
(*                                                                         *)
(* Strings are sequences of tokens.  A token is either a separator ("\\"   *)
(* inside a path, ";" between the entries of PATH) or an atom: a fixed,    *)
(* non-empty run of characters holding no separator.  split, filter and    *)
(* join are computed on these sequences as str.split and str.join compute  *)
(* them on characters.                                                     *)
(***************************************************************************)
EXTENDS Integers, Sequences, FiniteSets, TLC

VARIABLES
    \* the report run (main)
    pc, view, raised, warnings, sections,
    \* the generator main is iterating (a scanner) and the registry under it
    gpc, i, j, tree, handles, yielded, gerr, raisedAt, nt, locals,
    \* get_path_entries
    envPath, fs, paths, unique_paths,
    \* the path conversions called on their own
    cpc, cin, cfriendly, chkcu, chkcu2, cerr

mainVars == <<pc, view, raised, warnings, sections>>
genVars  == <<gpc, i, j, tree, handles, yielded, gerr, raisedAt, nt, locals>>
pathVars == <<envPath, fs, paths, unique_paths>>
convVars == <<cpc, cin, cfriendly, chkcu, chkcu2, cerr>>
vars == <<mainVars, genVars, pathVars, convVars>>

----------------------------------------------------------------------------
\* Bounds of the model.
MaxSubkeys == 2
MaxTags == 2
MaxStoreEntries == 2
MaxPathEntries == 3
MaxSegs == 2
MaxTokens == 4

----------------------------------------------------------------------------
\* Strings.
SEP == "\\"
None == "None"

RECURSIVE SplitFrom(_, _, _)
SplitFrom(s, sep, cur) ==
    IF s = <<>> THEN <<cur>>
    ELSE IF Head(s) = sep THEN <<cur>> \o SplitFrom(Tail(s), sep, <<>>)
    ELSE SplitFrom(Tail(s), sep, Append(cur, Head(s)))

\* str.split(sep)
Split(s, sep) == SplitFrom(s, sep, <<>>)

RECURSIVE Join(_, _)
\* sep.join(parts)
Join(parts, sep) ==
    IF parts = <<>> THEN <<>>
    ELSE IF Len(parts) = 1 THEN parts[1]
    ELSE parts[1] \o <<sep>> \o Join(Tail(parts), sep)

\* list(filter(None, parts))
FilterNone(parts) == SelectSeq(parts, LAMBDA p : p # <<>>)

\* parts[k:] with Python's 0-based k
From(parts, k) == SubSeq(parts, k + 1, Len(parts))

----------------------------------------------------------------------------
\* registry_helpers.get_friendly_hkey_path

get_friendly_hkey_path_dropsid(path) ==
    LET path_parts == FilterNone(Split(path, SEP)) IN
    IF Len(path_parts) < 2 THEN [err |-> "IndexError", val |-> <<>>]
    ELSE IF path_parts[2] = <<"MACHINE">> THEN
        [err |-> None,
         val |-> Join(<<<<"HKEY_LOCAL_MACHINE">>>> \o From(path_parts, 2), SEP)]
    ELSE IF path_parts[2] = <<"USER">> THEN
        [err |-> None,
         val |-> Join(<<<<"HKEY_USERS">>>> \o From(path_parts, 3), SEP)]
    ELSE [err |-> "ValueError", val |-> <<>>]

\* path_parts[1] is the second non-empty segment (1-based index 2 here); with fewer
\* than two segments the subscript raises IndexError before any comparison.
get_friendly_hkey_path(path) ==
    LET path_parts == FilterNone(Split(path, SEP)) IN
    IF Len(path_parts) < 2 THEN [err |-> "IndexError", val |-> <<>>]
    ELSE IF path_parts[2] = <<"MACHINE">> THEN
        [err |-> None,
         val |-> Join(<<<<"HKEY_LOCAL_MACHINE">>>> \o From(path_parts, 2), SEP)]
    ELSE IF path_parts[2] = <<"USER">> THEN
        [err |-> None,
         val |-> Join(<<<<"HKEY_USERS">>>> \o From(path_parts, 2), SEP)]
    ELSE [err |-> "ValueError", val |-> <<>>]

\* __main__.hkey_users_to_hkcu

hkey_users_to_hkcu_noprefix(hkey) ==
    LET parts == Split(hkey, SEP) IN
    IF parts[1] # <<"HKEY_USERS">> THEN hkey
    ELSE Join(From(parts, 2), SEP)

hkey_users_to_hkcu(hkey) ==
    LET parts == Split(hkey, SEP) IN
    IF parts[1] # <<"HKEY_USERS">> THEN hkey
    ELSE Join(<<<<"HKEY_CURRENT_USER">>>> \o From(parts, 2), SEP)

----------------------------------------------------------------------------
\* The registry as the scanners see it.

Views == <<"HKCU", "HKLM32", "HKLM64">>
SID == "S-1-5-21-1000"
PSF == "Python Software Foundation"
UninstallSubkey == <<"SOFTWARE", "Microsoft", "Windows", "CurrentVersion", "Uninstall">>
PythonSubkey == <<"SOFTWARE", "Python">>
KeyNames == <<"k1", "k2", "k3", "k4", "k5">>

SeqsUpTo(S, n) == UNION {[1..m -> S] : m \in 0..n}

\* The values of a key: a function from the names that are present.
ValuesOver(allowed) ==
    UNION {{f \in [D -> UNION {allowed[n] : n \in DOMAIN allowed}] :
               \A n \in D : f[n] \in allowed[n]} : D \in SUBSET DOMAIN allowed}

\* The values of an uninstall subkey; an InstallSource comes with a DisplayName.
AppValues ==
    {v \in ValuesOver([Publisher |-> {PSF, "python software foundation", "Other Corp"},
                       DisplayName |-> {"Python 3.12"},
                       InstallSource |-> {"C:/src"}]) :
        "InstallSource" \in DOMAIN v => "DisplayName" \in DOMAIN v}

NoTree == [present |-> FALSE, keys |-> <<>>]

UninstallTrees ==
    {NoTree} \cup
    {[present |-> TRUE, keys |-> ks] :
        ks \in SeqsUpTo({[values |-> v] : v \in AppValues}, MaxSubkeys)}

TagKeys ==
    {[values |-> v, install |-> p] :
        v \in ValuesOver([DisplayName |-> {"Python 3.12"}]),
        p \in {[present |-> FALSE, values |-> <<>>]} \cup
              {[present |-> TRUE, values |-> d] :
                  d \in ValuesOver([default |-> {"C:/Py312"}])}}

OtherCorpKey == [name |-> "OtherCorp",
                 tags |-> <<[values |-> [DisplayName |-> "Other 1.0"],
                             install |-> [present |-> FALSE, values |-> <<>>]]>>]

PythonTrees ==
    {NoTree} \cup
    {[present |-> TRUE, keys |-> ks] : ks \in {<<>>, <<OtherCorpKey>>}} \cup
    {[present |-> TRUE, keys |-> ks] :
        ks \in UNION {{<<[name |-> "PythonCore", tags |-> ts]>>,
                       <<[name |-> "PythonCore", tags |-> ts], OtherCorpKey>>,
                       <<OtherCorpKey, [name |-> "PythonCore", tags |-> ts]>>} :
                      ts \in SeqsUpTo(TagKeys, MaxTags)}}

\* The kernel's object name of a key: the hive's root, the WOW64 redirection of the
\* 32-bit machine view, then the key's own segments.
KernelSegs(v, segs) ==
    IF v = "HKCU" THEN <<"REGISTRY", "USER", SID>> \o segs
    ELSE IF v = "HKLM32" THEN
        <<"REGISTRY", "MACHINE", Head(segs), "WOW6432Node">> \o Tail(segs)
    ELSE <<"REGISTRY", "MACHINE">> \o segs

PathOf(segs) == Join([k \in 1..Len(segs) |-> <<segs[k]>>], SEP)
KernelName(v, segs) == <<SEP>> \o PathOf(KernelSegs(v, segs))

\* What NtQueryKey may name: the key's object name or, as a fault, a name in a
\* hive the conversion does not know (an application hive, \REGISTRY\A).
KernelAnswers(v, segs) ==
    {KernelName(v, segs), <<SEP>> \o PathOf(<<"REGISTRY", "A">> \o segs)}

\* winreg.QueryValueEx
QueryValueEx(key, name) ==
    IF name \in DOMAIN key.values THEN [err |-> None, val |-> key.values[name]]
    ELSE [err |-> "FileNotFoundError", val |-> None]

\* registry_helpers.get_value: a value that is not there reads as None
get_value(key, name) ==
    LET r == QueryValueEx(key, name) IN
    IF r.err = "FileNotFoundError" THEN [err |-> None, val |-> None] ELSE r

----------------------------------------------------------------------------
\* registry_helpers.get_path_from_hkey

\* NTSTATUS values are 32-bit unsigned codes that are only ever compared; they are
\* written as their hexadecimal text.
STATUS_BUFFER_TOO_SMALL == "0xC0000023"
STATUS_SUCCESS == "0x0"
\* STATUS_BUFFER_OVERFLOW, STATUS_INVALID_HANDLE
FailureStatuses == {"0x80000005", "0xC0000008"}

\* KEY_NAME_INFORMATION: a ULONG NameLength, then the name, two bytes a character.
ResultLength(name) == 4 + 2 * Len(name)

\* The statuses a query may end with: success needs a buffer that holds the answer.
QueryStatuses(length, name) ==
    IF length >= ResultLength(name)
    THEN {STATUS_SUCCESS} \cup FailureStatuses
    ELSE {STATUS_BUFFER_TOO_SMALL} \cup FailureStatuses

ProbeLength == 0

\* the Length of the second query
FetchLength(result_length) == result_length + 2

\* (result_length.value + 2) // ctypes.sizeof(ctypes.c_wchar)
BufferSize(result_length) == (result_length + 2) \div 2

NUL == "NUL"
\* create_unicode_buffer zeroes the buffer; a successful query writes the structure
\* over its first length bytes.
FilledBuffer(size, length, name) ==
    [k \in 1..size |->
        IF 2 * k > length THEN NUL
        ELSE IF k <= 2 THEN "NameLength"
        ELSE IF k - 2 <= Len(name) THEN name[k - 2]
        ELSE NUL]

\* buffer[2:-1]
BufferPath(buffer) == SubSeq(buffer, 3, Len(buffer) - 1)

NoQuery == [queries |-> 0, status |-> <<>>, result_length |-> 0,
            length |-> <<>>, size |-> 0, name |-> <<>>, obj_key |-> <<>>]

----------------------------------------------------------------------------
\* The generators.  gpc is where the generator main iterates stands:
\* "start" (created, not yet run), a position of its body, "yield" (suspended at
\* its yield), "exhausted" (returned) or "raised" (ended by the exception gerr).

\* leaving one with block
CloseKey(hs) == SubSeq(hs, 1, Len(hs) - 1)

Unwind_leak(hs) == hs

\* an exception leaving the generator exits every with block it is in
Unwind(hs) == <<>>

GenRaise(err, at) ==
    /\ gpc' = "raised"
    /\ gerr' = err
    /\ raisedAt' = at
    /\ handles' = Unwind(handles)

OpenKeyFailures == {"FileNotFoundError", "PermissionError"}

IsPsfPublisher_nocase(publisher) ==
    publisher \in {PSF, "python software foundation"}

\* publisher == "Python Software Foundation"
IsPsfPublisher(publisher) == publisher = PSF

CurView == Views[view]
CurKey == tree.keys[i]

get_psf_uninstall_entries_open ==
    /\ pc = "uninstall" /\ gpc = "start"
    /\ \E t \in UninstallTrees :
        /\ tree' = t
        /\ IF ~t.present
           THEN GenRaise("FileNotFoundError", "root") /\ i' = i
           ELSE /\ handles' = Append(handles, "uninstall_key")
                /\ gpc' = "list" /\ i' = 1
                /\ UNCHANGED <<gerr, raisedAt>>
    /\ UNCHANGED <<mainVars, j, yielded, nt, locals, pathVars, convVars>>

get_psf_uninstall_entries_next ==
    /\ pc = "uninstall" /\ gpc = "list"
    /\ IF i > Len(tree.keys)
       THEN /\ gpc' = "exhausted" /\ handles' = CloseKey(handles)
            /\ UNCHANGED <<gerr, raisedAt>>
       ELSE \/ /\ handles' = Append(handles, "app_key") /\ gpc' = "values"
               /\ UNCHANGED <<gerr, raisedAt>>
            \/ \E e \in OpenKeyFailures : GenRaise(e, "subkey")
    /\ UNCHANGED <<mainVars, i, j, tree, yielded, nt, locals, pathVars, convVars>>

get_psf_uninstall_entries_values ==
    /\ pc = "uninstall" /\ gpc = "values"
    /\ \/ /\ GenRaise("PermissionError", "value")
          /\ UNCHANGED <<i, locals>>
       \/ LET publisher == get_value(CurKey, "Publisher")
              display_name == get_value(CurKey, "DisplayName")
              install_source == get_value(CurKey, "InstallSource")
              errs == {r.err : r \in {publisher, display_name, install_source}} \ {None}
          IN IF errs # {}
             THEN GenRaise(CHOOSE e \in errs : TRUE, "value") /\ UNCHANGED <<i, locals>>
             ELSE /\ locals' = [display_name |-> display_name.val,
                                install |-> install_source.val]
                  /\ IF IsPsfPublisher(publisher.val)
                     THEN gpc' = "probe" /\ UNCHANGED <<i, handles>>
                     ELSE gpc' = "list" /\ i' = i + 1 /\ handles' = CloseKey(handles)
                  /\ UNCHANGED <<gerr, raisedAt>>
    /\ UNCHANGED <<mainVars, j, tree, yielded, nt, pathVars, convVars>>

\* The key whose handle is passed to get_path_from_hkey.
ResolvedSegs ==
    IF pc = "uninstall" THEN UninstallSubkey \o <<KeyNames[i]>>
    ELSE PythonSubkey \o <<CurKey.name, KeyNames[j]>>

get_path_from_hkey_probe_noassert ==
    /\ pc \in {"uninstall", "pep514"} /\ gpc = "probe"
    /\ \E name \in KernelAnswers(CurView, ResolvedSegs) :
       \E st \in QueryStatuses(ProbeLength, name) :
        /\ nt' = [NoQuery EXCEPT !.queries = 1, !.status = <<st>>, !.name = name,
                                 !.length = <<ProbeLength>>,
                                 !.result_length = ResultLength(name)]
        /\ gpc' = "fetch" /\ UNCHANGED <<handles, gerr, raisedAt>>
    /\ UNCHANGED <<mainVars, i, j, tree, yielded, locals, pathVars, convVars>>

\* the first NtQueryKey and its assert
get_path_from_hkey_probe ==
    /\ pc \in {"uninstall", "pep514"} /\ gpc = "probe"
    /\ \E name \in KernelAnswers(CurView, ResolvedSegs) :
       \E st \in QueryStatuses(ProbeLength, name) :
        /\ nt' = [NoQuery EXCEPT !.queries = 1, !.status = <<st>>, !.name = name,
                                 !.length = <<ProbeLength>>,
                                 !.result_length = ResultLength(name)]
        /\ IF st # STATUS_BUFFER_TOO_SMALL
           THEN GenRaise("AssertionError", "probe")
           ELSE gpc' = "fetch" /\ UNCHANGED <<handles, gerr, raisedAt>>
    /\ UNCHANGED <<mainVars, i, j, tree, yielded, locals, pathVars, convVars>>

\* the second NtQueryKey, its assert and the return
get_path_from_hkey_fetch ==
    /\ pc \in {"uninstall", "pep514"} /\ gpc = "fetch"
    /\ LET size == BufferSize(nt.result_length)
           length == FetchLength(nt.result_length)
       IN \E st \in QueryStatuses(length, nt.name) :
           LET buffer == IF st = STATUS_SUCCESS
                         THEN FilledBuffer(size, length, nt.name)
                         ELSE [k \in 1..size |-> NUL]
           IN /\ nt' = [nt EXCEPT !.queries = @ + 1, !.status = Append(@, st),
                                  !.length = Append(@, length), !.size = size,
                                  !.obj_key = IF st = STATUS_SUCCESS
                                              THEN BufferPath(buffer) ELSE <<>>]
              /\ IF st # STATUS_SUCCESS
                 THEN GenRaise("AssertionError", "fetch")
                 ELSE gpc' = "convert" /\ UNCHANGED <<handles, gerr, raisedAt>>
    /\ UNCHANGED <<mainVars, i, j, tree, yielded, locals, pathVars, convVars>>

\* hkey_users_to_hkcu(get_friendly_hkey_path(obj_key)) and the yield
generator_yield ==
    /\ pc \in {"uninstall", "pep514"} /\ gpc = "convert"
    /\ \E friendly \in {get_friendly_hkey_path(nt.obj_key)} :
       IF friendly.err # None
       THEN GenRaise(friendly.err, "convert") /\ UNCHANGED yielded
       ELSE /\ yielded' = Append(yielded, <<locals.display_name, locals.install,
                                           hkey_users_to_hkcu(friendly.val)>>)
            /\ gpc' = "yield" /\ UNCHANGED <<handles, gerr, raisedAt>>
    /\ UNCHANGED <<mainVars, i, j, tree, nt, locals, pathVars, convVars>>

CurTag == CurKey.tags[j]

get_pep514_entries_open ==
    /\ pc = "pep514" /\ gpc = "start"
    /\ \E t \in PythonTrees :
        /\ tree' = t
        /\ IF ~t.present
           THEN GenRaise("FileNotFoundError", "root") /\ i' = i
           ELSE /\ handles' = Append(handles, "python_key")
                /\ gpc' = "list" /\ i' = 1
                /\ UNCHANGED <<gerr, raisedAt>>
    /\ UNCHANGED <<mainVars, j, yielded, nt, locals, pathVars, convVars>>

IsPythonCore_any(company) == TRUE

\* the negation of: company != "PythonCore"
IsPythonCore(company) == company = "PythonCore"

get_pep514_entries_company ==
    /\ pc = "pep514" /\ gpc = "list"
    /\ IF i > Len(tree.keys)
       THEN /\ gpc' = "exhausted" /\ handles' = CloseKey(handles)
            /\ UNCHANGED <<i, j, gerr, raisedAt>>
       ELSE IF ~IsPythonCore(CurKey.name)
       THEN i' = i + 1 /\ UNCHANGED <<gpc, j, handles, gerr, raisedAt>>
       ELSE \/ /\ handles' = Append(handles, "company_key")
               /\ gpc' = "tags" /\ j' = 1
               /\ UNCHANGED <<i, gerr, raisedAt>>
            \/ /\ \E e \in OpenKeyFailures : GenRaise(e, "subkey")
               /\ UNCHANGED <<i, j>>
    /\ UNCHANGED <<mainVars, tree, yielded, nt, locals, pathVars, convVars>>

get_pep514_entries_tag ==
    /\ pc = "pep514" /\ gpc = "tags"
    /\ IF j > Len(CurKey.tags)
       THEN /\ gpc' = "list" /\ i' = i + 1 /\ handles' = CloseKey(handles)
            /\ UNCHANGED <<gerr, raisedAt>>
       ELSE \/ /\ handles' = Append(handles, "tag_key") /\ gpc' = "values"
               /\ UNCHANGED <<i, gerr, raisedAt>>
            \/ /\ \E e \in OpenKeyFailures : GenRaise(e, "subkey")
               /\ UNCHANGED i
    /\ UNCHANGED <<mainVars, j, tree, yielded, nt, locals, pathVars, convVars>>

get_pep514_entries_display ==
    /\ pc = "pep514" /\ gpc = "values"
    /\ \/ GenRaise("PermissionError", "value") /\ UNCHANGED locals
       \/ LET display_name == get_value(CurTag, "DisplayName") IN
          IF display_name.err # None
          THEN GenRaise(display_name.err, "value") /\ UNCHANGED locals
          ELSE /\ locals' = [display_name |-> display_name.val, install |-> None]
               /\ gpc' = "install"
               /\ UNCHANGED <<handles, gerr, raisedAt>>
    /\ UNCHANGED <<mainVars, i, j, tree, yielded, nt, pathVars, convVars>>

\* with winreg.OpenKey(tag_key, "InstallPath") as inst_key, inside
\* try ... except FileNotFoundError: install_path = ""
get_pep514_entries_install ==
    /\ pc = "pep514" /\ gpc = "install"
    /\ \/ IF CurTag.install.present
          THEN /\ handles' = Append(handles, "inst_key") /\ gpc' = "install_value"
               /\ UNCHANGED <<locals, gerr, raisedAt>>
          ELSE /\ gpc' = "probe" /\ locals' = [locals EXCEPT !.install = ""]
               /\ UNCHANGED <<handles, gerr, raisedAt>>
       \/ GenRaise("PermissionError", "install") /\ UNCHANGED locals
    /\ UNCHANGED <<mainVars, i, j, tree, yielded, nt, pathVars, convVars>>

\* install_path = get_value(inst_key, "")[0], then inst_key is closed
get_pep514_entries_install_value ==
    /\ pc = "pep514" /\ gpc = "install_value"
    /\ \/ GenRaise("PermissionError", "value") /\ UNCHANGED locals
       \/ LET install_path == get_value(CurTag.install, "default") IN
          IF install_path.err = "FileNotFoundError"
          THEN /\ locals' = [locals EXCEPT !.install = ""]
               /\ gpc' = "probe" /\ handles' = CloseKey(handles)
               /\ UNCHANGED <<gerr, raisedAt>>
          ELSE /\ locals' = [locals EXCEPT !.install = install_path.val]
               /\ gpc' = "probe" /\ handles' = CloseKey(handles)
               /\ UNCHANGED <<gerr, raisedAt>>
    /\ UNCHANGED <<mainVars, i, j, tree, yielded, nt, pathVars, convVars>>

----------------------------------------------------------------------------
\* read_psf_win_apps.  A directory entry of WindowsApps: whether its name starts
\* with "PythonSoftwareFoundation", whether its manifest can be read, and whether
\* the manifest holds the DisplayName text and the Identity element.

StoreEntries ==
    {[psf |-> FALSE, readable |-> TRUE, text |-> TRUE, identity |-> TRUE],
     [psf |-> TRUE, readable |-> FALSE, text |-> TRUE, identity |-> TRUE],
     [psf |-> TRUE, readable |-> TRUE, text |-> TRUE, identity |-> TRUE],
     [psf |-> TRUE, readable |-> TRUE, text |-> FALSE, identity |-> TRUE],
     [psf |-> TRUE, readable |-> TRUE, text |-> TRUE, identity |-> FALSE]}

StoreDirs ==
    {[present |-> FALSE, access |-> TRUE, keys |-> <<>>]} \cup
    {[present |-> TRUE, access |-> FALSE, keys |-> <<>>]} \cup
    {[present |-> TRUE, access |-> TRUE, keys |-> es] :
        es \in SeqsUpTo(StoreEntries, MaxStoreEntries)}

\* apps_path.iterdir()
read_psf_win_apps_iterdir ==
    /\ pc = "store" /\ gpc = "start"
    /\ \E d \in StoreDirs :
        /\ tree' = d
        /\ IF ~d.present THEN GenRaise("FileNotFoundError", "iterdir") /\ i' = i
           ELSE IF ~d.access THEN GenRaise("PermissionError", "iterdir") /\ i' = i
           ELSE gpc' = "list" /\ i' = 1 /\ UNCHANGED <<handles, gerr, raisedAt>>
    /\ UNCHANGED <<mainVars, j, yielded, nt, locals, pathVars, convVars>>

read_psf_win_apps_entry ==
    /\ pc = "store" /\ gpc = "list"
    /\ IF i > Len(tree.keys)
       THEN gpc' = "exhausted" /\ UNCHANGED <<i, handles, yielded, gerr, raisedAt>>
       ELSE IF ~CurKey.psf
       THEN i' = i + 1 /\ UNCHANGED <<gpc, handles, yielded, gerr, raisedAt>>
       ELSE IF ~CurKey.readable
       THEN GenRaise("PermissionError", "manifest") /\ UNCHANGED <<i, yielded>>
       ELSE IF CurKey.text /\ CurKey.identity
       THEN /\ gpc' = "yield"
            /\ yielded' = Append(yielded, <<"DisplayName", "Name", "Version">>)
            /\ UNCHANGED <<i, handles, gerr, raisedAt>>
       ELSE i' = i + 1 /\ UNCHANGED <<gpc, handles, yielded, gerr, raisedAt>>
    /\ UNCHANGED <<mainVars, j, tree, nt, locals, pathVars, convVars>>

----------------------------------------------------------------------------
\* get_path_entries.  PATH is a string of entries joined by ";".

PATHSEP == ";"
Drives == {"C:", "D:"}
\* the atoms whose lower-cased text holds "python"
PythonNamed == {"Python311", "PYTHON312"}
\* the file names that start with "pip"
PipNamed == {"pip.exe", "pip3.exe"}

\* pathlib.Path(path_string): the parts of the path
PathParts(path_string) == FilterNone(Split(path_string, SEP))

\* Path.name: the final component, empty for a bare drive
PathName(path) ==
    IF path = <<>> \/ (Len(path) = 1 /\ path[1][1] \in Drives) THEN <<>>
    ELSE path[Len(path)]

\* "python" in path_string.lower()
HasPython(path_string) == \E k \in 1..Len(path_string) : path_string[k] \in PythonNamed

NoDir == [exists |-> FALSE, children |-> {}]
Dir(children) == [exists |-> TRUE, children |-> children]
Stat(files, path) == IF path \in DOMAIN files THEN files[path] ELSE NoDir

RECURSIVE Repeat(_, _)
Repeat(x, n) == IF n = 0 THEN <<>> ELSE <<x>> \o Repeat(x, n - 1)

\* what one entry of PATH adds to paths (lines 158-172)
PathEntry(files, path_string) ==
    LET path == PathParts(path_string)
        dir == Stat(files, path)
    IN IF ~HasPython(path_string) THEN <<>>
       ELSE IF ~dir.exists THEN <<<<path, FALSE>>>>
       ELSE IF PathName(path) = <<"Scripts">>
       THEN Repeat(<<path, TRUE>>, Cardinality(dir.children \cap PipNamed))
       ELSE IF "python.exe" \in dir.children THEN <<<<path, TRUE>>>>
       ELSE <<>>

RECURSIVE CollectFrom(_, _)
CollectFrom(files, strings) ==
    IF strings = <<>> THEN <<>>
    ELSE PathEntry(files, Head(strings)) \o CollectFrom(files, Tail(strings))

\* the first loop of get_path_entries
CollectPaths(files, env) == CollectFrom(files, Split(env, PATHSEP))

SeenKey_fullpath(path) == Join(path, SEP)

\* what already_seen holds of a path: path.name
SeenKey(path) == PathName(path)

RECURSIVE Dedup(_, _, _)
\* the second loop of get_path_entries
Dedup(ps, unique, already_seen) ==
    IF ps = <<>> THEN unique
    ELSE IF \E k \in 1..Len(already_seen) : already_seen[k] = SeenKey(Head(ps)[1])
    THEN Dedup(Tail(ps), unique, already_seen)
    ELSE Dedup(Tail(ps), Append(unique, Head(ps)),
               Append(already_seen, SeenKey(Head(ps)[1])))

get_path_entries ==
    /\ pc = "path"
    /\ paths' = CollectPaths(fs, envPath)
    /\ unique_paths' = Dedup(paths', <<>>, <<>>)
    /\ pc' = "done" /\ sections' = Append(sections, pc)
    /\ UNCHANGED <<view, raised, warnings, genVars, envPath, fs, convVars>>

----------------------------------------------------------------------------
\* main: what the report run does with the generator it iterates.

NoLocals == [display_name |-> None, install |-> None]

FreshGenerator ==
    /\ gpc' = "start" /\ i' = 0 /\ j' = 0 /\ tree' = NoTree /\ handles' = <<>>
    /\ yielded' = <<>> /\ gerr' = None /\ raisedAt' = None /\ nt' = NoQuery
    /\ locals' = NoLocals

\* The exception of the generator leaves main: the run ends with it.  The frames
\* are gone; the handles they left open, if any, stay open.
Propagate ==
    /\ pc' = "aborted" /\ raised' = gerr
    /\ gpc' = "raised" /\ i' = 0 /\ j' = 0 /\ tree' = NoTree /\ yielded' = <<>>
    /\ nt' = NoQuery /\ locals' = NoLocals
    /\ UNCHANGED <<view, sections, handles, gerr, raisedAt>>

\* the body of a for loop over a registry scanner: print the entry, ask for the next
main_print_entry ==
    /\ pc \in {"uninstall", "pep514"} /\ gpc = "yield"
    /\ handles' = CloseKey(handles)
    /\ nt' = NoQuery /\ locals' = NoLocals
    /\ IF pc = "uninstall"
       THEN gpc' = "list" /\ i' = i + 1 /\ j' = j
       ELSE gpc' = "tags" /\ j' = j + 1 /\ i' = i
    /\ UNCHANGED <<mainVars, tree, yielded, gerr, raisedAt, pathVars, convVars>>

\* the next of (user, machine x86, machine x64), or the next section
NextView(section) ==
    IF view < Len(Views)
    THEN pc' = pc /\ view' = view + 1 /\ sections' = sections
    ELSE pc' = section /\ view' = 1 /\ sections' = Append(sections, pc)

\* lines 202-213: the uninstall entries of a view are exhausted
main_uninstall_exhausted ==
    /\ pc = "uninstall" /\ gpc = "exhausted"
    /\ NextView("store")
    /\ FreshGenerator
    /\ UNCHANGED <<raised, warnings, pathVars, convVars>>

\* lines 202-213: no except clause, whatever the scanner raises leaves main
main_uninstall_raised ==
    /\ pc = "uninstall" /\ gpc = "raised"
    /\ Propagate
    /\ UNCHANGED <<warnings, pathVars, convVars>>

main_store_print ==
    /\ pc = "store" /\ gpc = "yield"
    /\ gpc' = "list" /\ i' = i + 1
    /\ UNCHANGED <<pc, view, raised, warnings, sections, j, tree, handles, yielded,
                   gerr, raisedAt, nt, locals, pathVars, convVars>>

main_store_exhausted ==
    /\ pc = "store" /\ gpc = "exhausted"
    /\ pc' = "pep514" /\ sections' = Append(sections, pc)
    /\ FreshGenerator
    /\ UNCHANGED <<view, raised, warnings, pathVars, convVars>>

main_store_raised_noexcept ==
    /\ pc = "store" /\ gpc = "raised"
    /\ Propagate
    /\ UNCHANGED <<warnings, pathVars, convVars>>

\* lines 220-229: except PermissionError prints the warning
main_store_raised ==
    /\ pc = "store" /\ gpc = "raised"
    /\ IF gerr = "PermissionError"
       THEN /\ warnings' = warnings + 1
            /\ pc' = "pep514" /\ sections' = Append(sections, pc)
            /\ FreshGenerator
            /\ UNCHANGED <<view, raised>>
       ELSE Propagate /\ UNCHANGED warnings
    /\ UNCHANGED <<pathVars, convVars>>

main_pep514_exhausted ==
    /\ pc = "pep514" /\ gpc = "exhausted"
    /\ NextView("path")
    /\ FreshGenerator
    /\ UNCHANGED <<raised, warnings, pathVars, convVars>>

\* lines 244-257: except FileNotFoundError: continue
main_pep514_raised ==
    /\ pc = "pep514" /\ gpc = "raised"
    /\ IF gerr = "FileNotFoundError"
       THEN /\ NextView("path")
            /\ FreshGenerator
            /\ UNCHANGED raised
       ELSE Propagate
    /\ UNCHANGED <<warnings, pathVars, convVars>>

----------------------------------------------------------------------------
\* The conversions called on their own.

conv_friendly ==
    /\ cpc = "in"
    /\ LET r == get_friendly_hkey_path(cin) IN
        /\ cerr' = r.err
        /\ cfriendly' = r.val
        /\ cpc' = IF r.err = None THEN "friendly" ELSE "failed"
    /\ UNCHANGED <<mainVars, genVars, pathVars, cin, chkcu, chkcu2>>

conv_hkcu ==
    /\ cpc = "friendly"
    /\ chkcu' = hkey_users_to_hkcu(cfriendly)
    /\ cpc' = "hkcu"
    /\ UNCHANGED <<mainVars, genVars, pathVars, cin, cfriendly, chkcu2, cerr>>

\* the input read as a friendly path
conv_hkcu_direct ==
    /\ cpc = "in"
    /\ chkcu' = hkey_users_to_hkcu(cin)
    /\ cpc' = "direct"
    /\ UNCHANGED <<mainVars, genVars, pathVars, cin, cfriendly, chkcu2, cerr>>

conv_hkcu_again ==
    /\ cpc \in {"hkcu", "direct"}
    /\ chkcu2' = hkey_users_to_hkcu(chkcu)
    /\ cpc' = IF cpc = "hkcu" THEN "hkcu_twice" ELSE "direct_twice"
    /\ UNCHANGED <<mainVars, genVars, pathVars, cin, cfriendly, chkcu, cerr>>

----------------------------------------------------------------------------
\* Initial states and specifications.

GenIdle ==
    /\ gpc = "start" /\ i = 0 /\ j = 0 /\ tree = NoTree /\ handles = <<>>
    /\ yielded = <<>> /\ gerr = None /\ raisedAt = None /\ nt = NoQuery
    /\ locals = NoLocals

ConvIdle ==
    /\ cpc = "idle" /\ cin = <<>> /\ cfriendly = <<>> /\ chkcu = <<>>
    /\ chkcu2 = <<>> /\ cerr = None

Str(segs) == PathOf(segs)

\* The directories PATH may name, and what the disk may hold of each.
PathStrings ==
    {Str(<<"C:", "Python311">>), Str(<<"C:", "Python311", "Scripts">>),
     Str(<<"C:", "PYTHON312", "Scripts">>), Str(<<"D:", "Python311">>),
     Str(<<"C:", "Tools", "Scripts">>)}

FsPaths == {PathParts(x) : x \in PathStrings}

DiskChoices(p) ==
    IF ~HasPython(Str([k \in 1..Len(p) |-> p[k][1]])) THEN {Dir({"pip.exe"})}
    ELSE IF PathName(p) = <<"Scripts">>
    THEN {NoDir, Dir({}), Dir({"pip.exe"}), Dir({"pip.exe", "pip3.exe", "python.exe"})}
    ELSE {NoDir, Dir({}), Dir({"python.exe"})}

Disks ==
    {f \in [FsPaths -> UNION {DiskChoices(p) : p \in FsPaths}] :
        \A p \in FsPaths : f[p] \in DiskChoices(p)}

EnvPaths == {Join(ps, PATHSEP) : ps \in SeqsUpTo(PathStrings, MaxPathEntries)}

ExampleDisk ==
    [p \in {PathParts(x) : x \in PathStrings} |->
        IF PathName(p) = <<"Scripts">> THEN Dir({"pip.exe", "pip3.exe"})
        ELSE IF p[1] = <<"C:">> THEN Dir({"python.exe"}) ELSE NoDir]

ExamplePath ==
    Join(<<Str(<<"C:", "Python311", "Scripts">>), Str(<<"C:", "Python311">>),
           Str(<<"C:", "PYTHON312", "Scripts">>), Str(<<"D:", "Python311">>)>>, PATHSEP)

PathIdle ==
    /\ envPath = ExamplePath /\ fs = ExampleDisk
    /\ paths = <<>> /\ unique_paths = <<>>

\* main is entered: nothing printed, no generator run yet
Init ==
    /\ pc = "uninstall" /\ view = 1 /\ raised = None /\ warnings = 0
    /\ sections = <<>>
    /\ GenIdle /\ PathIdle /\ ConvIdle

Next ==
    \/ get_psf_uninstall_entries_open
    \/ get_psf_uninstall_entries_next
    \/ get_psf_uninstall_entries_values
    \/ get_path_from_hkey_probe
    \/ get_path_from_hkey_fetch
    \/ generator_yield
    \/ main_print_entry
    \/ main_uninstall_exhausted
    \/ main_uninstall_raised
    \/ read_psf_win_apps_iterdir
    \/ read_psf_win_apps_entry
    \/ main_store_print
    \/ main_store_exhausted
    \/ main_store_raised
    \/ get_pep514_entries_open
    \/ get_pep514_entries_company
    \/ get_pep514_entries_tag
    \/ get_pep514_entries_display
    \/ get_pep514_entries_install
    \/ get_pep514_entries_install_value
    \/ main_pep514_exhausted
    \/ main_pep514_raised
    \/ get_path_entries

Spec == Init /\ [][Next]_vars

\* main is sequential code: while a step is possible, one is taken.
FairSpec == Spec /\ WF_vars(Next)

\* get_path_entries on its own: main stands before its PATH section, with any PATH
\* and any disk.
InitPathEntries ==
    /\ pc = "path" /\ view = 1 /\ raised = None /\ warnings = 0
    /\ sections = <<"uninstall", "store", "pep514">>
    /\ GenIdle /\ ConvIdle
    /\ envPath \in EnvPaths /\ fs \in Disks
    /\ paths = <<>> /\ unique_paths = <<>>

NextPathEntries == get_path_entries

SpecPathEntries == InitPathEntries /\ [][NextPathEntries]_vars

\* The conversions on their own, on kernel object names, on friendly paths and on
\* short strings of any shape.
SegAtoms == {SID, "X", "HKEY_USERS"}
Tokens == {SEP, "REGISTRY", "MACHINE", "USER", "HKEY_USERS", "X"}
KernelPath(hive, segs) == <<SEP>> \o PathOf(<<"REGISTRY", hive>> \o segs)

ConvInputs ==
    {KernelPath(hive, segs) :
        hive \in {"MACHINE", "USER", "UNKNOWN"}, segs \in SeqsUpTo(SegAtoms, MaxSegs + 1)}
    \cup {PathOf(<<hive>> \o segs) :
        hive \in {"HKEY_USERS", "HKEY_LOCAL_MACHINE"},
        segs \in SeqsUpTo(SegAtoms, MaxSegs + 1)}
    \cup SeqsUpTo(Tokens, MaxTokens)

InitConv ==
    /\ pc = "uninstall" /\ view = 1 /\ raised = None /\ warnings = 0
    /\ sections = <<>>
    /\ GenIdle /\ PathIdle
    /\ cpc = "in" /\ cin \in ConvInputs
    /\ cfriendly = <<>> /\ chkcu = <<>> /\ chkcu2 = <<>> /\ cerr = None

NextConv ==
    \/ conv_friendly
    \/ conv_hkcu
    \/ conv_hkcu_direct
    \/ conv_hkcu_again

SpecConv == InitConv /\ [][NextConv]_vars

----------------------------------------------------------------------------
\* The claims.

IsPrefix(a, b) == Len(a) <= Len(b) /\ SubSeq(b, 1, Len(a)) = a

\* The elements of seq at the indices of keep, in order.
Pick(seq, keep) ==
    [n \in 1..Cardinality(keep) |->
        seq[CHOOSE k \in keep : Cardinality({m \in keep : m < k}) = n - 1]]

\* The friendly path of a key of a view, as the report shows it.
ShownPath(v, segs) ==
    PathOf(IF v = "HKCU" THEN <<"HKEY_CURRENT_USER">> \o segs
           ELSE IF v = "HKLM32"
           THEN <<"HKEY_LOCAL_MACHINE", Head(segs), "WOW6432Node">> \o Tail(segs)
           ELSE <<"HKEY_LOCAL_MACHINE">> \o segs)

ValueOrNone(key, name) == IF name \in DOMAIN key.values THEN key.values[name] ELSE None

\* C1: a root key missing for a view never ends the report run: no run is aborted by
\* the FileNotFoundError of opening a root, in either registry channel.
C1_MissingRootNeverAborts ==
    ~(pc = "aborted" /\ raised = "FileNotFoundError" /\ raisedAt = "root")

\* C2: a PermissionError of the Store scan, raised by iterdir or by reading a
\* manifest, is answered by one warning line; nothing more is printed for the
\* channel; the uninstall section is complete by then; the run goes on to the
\* PEP-514 and PATH sections and ends, with all four sections done unless a later
\* scan raises an error of its own.
C2_StorePermissionWarning ==
    /\ [](/\ warnings <= 1
          /\ (pc = "store" => sections = <<"uninstall">>)
          /\ (warnings = 1 =>
                /\ pc \in {"pep514", "path", "done", "aborted"}
                /\ SubSeq(sections, 1, 2) = <<"uninstall", "store">>
                /\ (pc = "aborted" => raisedAt \notin {"iterdir", "manifest"}))
          /\ (pc = "done" => sections = <<"uninstall", "store", "pep514", "path">>))
    /\ [][(pc = "store" /\ gpc = "raised" /\ gerr = "PermissionError")
            => (pc' = "pep514" /\ warnings' = 1 /\ gpc' = "start")]_vars
    /\ [][warnings = 1 => warnings' = 1]_vars
    /\ [][(pc = "store" /\ gpc = "raised") => yielded' \in {yielded, <<>>}]_vars
    /\ (warnings = 1) ~> (pc \in {"done", "aborted"})

\* the Store scan raised PermissionError, and the run is done
C2_Witness ==
    /\ pc = "done" /\ warnings = 1

\* C3: the result of get_path_entries is the collected pairs at the indices whose
\* final-segment name occurs at no earlier index, in order; no two entries of the
\* result share a name; every python-named PATH entry whose directory does not
\* exist is collected with exists = FALSE.
C3_DedupByName ==
    pc = "done" =>
        LET strings == Split(envPath, PATHSEP)
            first == {k \in 1..Len(paths) :
                        \A m \in 1..(k - 1) : PathName(paths[m][1]) # PathName(paths[k][1])}
        IN /\ unique_paths = Pick(paths, first)
           /\ \A a, b \in 1..Len(unique_paths) :
                a # b => PathName(unique_paths[a][1]) # PathName(unique_paths[b][1])
           /\ \A k \in 1..Len(strings) :
                (HasPython(strings[k]) /\ ~Stat(fs, PathParts(strings[k])).exists)
                    => \E m \in 1..Len(paths) : paths[m] = <<PathParts(strings[k]), FALSE>>

\* a Scripts directory that does not exist is dropped after another Scripts
\* directory of another parent, and an entry of another name is kept
C3_Witness ==
    /\ pc = "done" /\ Len(unique_paths) >= 2
    /\ \E a \in 1..Len(paths) :
        /\ paths[a][2] = FALSE
        /\ PathName(paths[a][1]) = <<"Scripts">>
        /\ \A n \in 1..Len(unique_paths) : unique_paths[n][1] # paths[a][1]
        /\ \E n \in 1..Len(unique_paths) :
            unique_paths[n][2] = TRUE /\ PathName(unique_paths[n][1]) = <<"Scripts">>

\* C4: \REGISTRY\MACHINE\s1..sn converts to HKEY_LOCAL_MACHINE\s1..sn, which
\* hkey_users_to_hkcu leaves as it is; \REGISTRY\USER\sid\s1..sn converts to
\* HKEY_USERS\sid\s1..sn and then to HKEY_CURRENT_USER\s1..sn.
C4_PathConversion ==
    /\ \A segs \in SeqsUpTo(SegAtoms, MaxSegs + 1) :
        cin = KernelPath("MACHINE", segs) =>
            /\ cpc # "failed"
            /\ cpc \in {"friendly", "hkcu", "hkcu_twice"} =>
                    cfriendly = PathOf(<<"HKEY_LOCAL_MACHINE">> \o segs)
            /\ cpc \in {"hkcu", "hkcu_twice"} => chkcu = cfriendly
    /\ \A sid \in SegAtoms : \A segs \in SeqsUpTo(SegAtoms, MaxSegs) :
        cin = KernelPath("USER", <<sid>> \o segs) =>
            /\ cpc # "failed"
            /\ cpc \in {"friendly", "hkcu", "hkcu_twice"} =>
                    cfriendly = PathOf(<<"HKEY_USERS", sid>> \o segs)
            /\ cpc \in {"hkcu", "hkcu_twice"} =>
                    chkcu = PathOf(<<"HKEY_CURRENT_USER">> \o segs)

C4_Witness ==
    /\ cpc = "hkcu"
    /\ cin = KernelPath("USER", <<SID, "X", "HKEY_USERS">>)
    /\ chkcu = PathOf(<<"HKEY_CURRENT_USER", "X", "HKEY_USERS">>)

\* C5: get_friendly_hkey_path fails with ValueError, and with nothing else, on
\* every input whose second non-empty segment is neither MACHINE nor USER, inputs
\* of fewer than two non-empty segments included; it fails on no other input.
C5_OnlyUnrecognizedPathError ==
    cpc \in {"friendly", "failed", "hkcu", "hkcu_twice"} =>
        LET segments == FilterNone(Split(cin, SEP))
            recognized == Len(segments) >= 2
                          /\ segments[2] \in {<<"MACHINE">>, <<"USER">>}
        IN IF recognized THEN cerr = None /\ cpc # "failed"
           ELSE cerr = "ValueError" /\ cpc = "failed"

\* C6: the first query has a zero-length buffer; a first status other than
\* buffer-too-small fails at once with one query issued; otherwise one second
\* query follows with the reported length plus 2 bytes as its length and its
\* buffer; a path is returned only after buffer-too-small then success, and it is
\* the key's name; there are never more than two queries.
C6_ProbeThenFetch ==
    /\ nt.queries <= 2 /\ Len(nt.status) = nt.queries /\ Len(nt.length) = nt.queries
    /\ nt.queries >= 1 => nt.length[1] = 0
    /\ (nt.queries = 1 /\ nt.status[1] # STATUS_BUFFER_TOO_SMALL) =>
            (gpc = "raised" /\ raisedAt = "probe" /\ gerr = "AssertionError")
    /\ (nt.queries = 1 /\ nt.status[1] = STATUS_BUFFER_TOO_SMALL) => gpc = "fetch"
    /\ gpc = "fetch" => nt.queries = 1
    /\ nt.queries = 2 =>
            /\ nt.status[1] = STATUS_BUFFER_TOO_SMALL
            /\ nt.length[2] = nt.result_length + 2
            /\ 2 * nt.size = nt.result_length + 2
            /\ nt.status[2] # STATUS_SUCCESS =>
                    (gpc = "raised" /\ raisedAt = "fetch" /\ gerr = "AssertionError")
    /\ ((pc \in {"uninstall", "pep514"} /\ gpc \in {"convert", "yield"})
            \/ nt.obj_key # <<>>) =>
            /\ nt.status = <<STATUS_BUFFER_TOO_SMALL, STATUS_SUCCESS>>
            /\ nt.obj_key = nt.name

C6_Witness ==
    /\ gpc = "convert" /\ nt.queries = 2 /\ nt.obj_key = nt.name /\ Len(nt.name) > 0

\* C7: the uninstall scan of a view yields, in enumeration order, one entry for
\* each subkey whose Publisher is exactly "Python Software Foundation" and none for
\* any other subkey; absent values are read as None and raise nothing.
ExpectedUninstall ==
    LET psf == {k \in 1..Len(tree.keys) :
                    /\ "Publisher" \in DOMAIN tree.keys[k].values
                    /\ tree.keys[k].values["Publisher"] = PSF}
        entry == [k \in 1..Len(tree.keys) |->
                    <<ValueOrNone(tree.keys[k], "DisplayName"),
                      ValueOrNone(tree.keys[k], "InstallSource"),
                      ShownPath(CurView, UninstallSubkey \o <<KeyNames[k]>>)>>]
    IN Pick(entry, psf)

C7_UninstallEntries ==
    pc = "uninstall" =>
        /\ IsPrefix(yielded, ExpectedUninstall)
        /\ gpc = "exhausted" => yielded = ExpectedUninstall
        /\ ~(gpc = "raised" /\ raisedAt = "value" /\ gerr = "FileNotFoundError")

\* of two subkeys, the one of the Foundation is yielded; the other has a
\* DisplayName and a publisher that differs by case only
C7_Witness ==
    /\ pc = "uninstall" /\ gpc = "exhausted" /\ Len(tree.keys) = 2 /\ Len(yielded) = 1
    /\ \E k \in 1..2 :
        /\ DOMAIN tree.keys[k].values = {"Publisher", "DisplayName"}
        /\ tree.keys[k].values["Publisher"] = "python software foundation"

\* C8: the PEP-514 scan of a view yields, in order, one entry for each tag of the
\* PythonCore company and none for a tag of another company; a tag with no
\* InstallPath subkey yields an entry whose install path is "" and raises nothing.
ExpectedPep514 ==
    LET core == {c \in 1..Len(tree.keys) : tree.keys[c].name = "PythonCore"}
        tags == IF core = {} THEN <<>> ELSE tree.keys[CHOOSE c \in core : TRUE].tags
    IN [k \in 1..Len(tags) |->
            <<ValueOrNone(tags[k], "DisplayName"),
              IF tags[k].install.present THEN ValueOrNone(tags[k].install, "default")
              ELSE "",
              ShownPath(CurView, PythonSubkey \o <<"PythonCore", KeyNames[k]>>)>>]

C8_Pep514Entries ==
    pc = "pep514" =>
        /\ IsPrefix(yielded, ExpectedPep514)
        /\ gpc = "exhausted" => yielded = ExpectedPep514
        /\ ~(gpc = "raised" /\ raisedAt = "install" /\ gerr = "FileNotFoundError")

\* OtherCorp is there, the first PythonCore tag has no InstallPath, a second tag
\* follows it
C8_Witness ==
    /\ pc = "pep514" /\ gpc = "exhausted" /\ Len(tree.keys) = 2 /\ Len(yielded) = 2
    /\ \E c \in 1..2 : tree.keys[c].name = "OtherCorp"
    /\ yielded[1][2] = "" /\ yielded[2][2] = "C:/Py312"

\* C9: hkey_users_to_hkcu applied twice gives what it gives applied once.
C9_Idempotent ==
    cpc \in {"hkcu_twice", "direct_twice"} => chkcu2 = chkcu

C9_Witness ==
    /\ cpc = "direct_twice" /\ chkcu # cin /\ chkcu2 = chkcu
    /\ cin = PathOf(<<"HKEY_USERS", SID, "HKEY_USERS", "X">>)

\* C10: the keys a scan holds open are the with blocks it is inside: at most 2 in
\* the uninstall scan and 4 in the PEP-514 scan, and none before a scan starts,
\* once it is exhausted, once it has raised, and in the other sections.
C10_NoHandleLeak ==
    /\ pc = "uninstall" => IsPrefix(handles, <<"uninstall_key", "app_key">>)
    /\ pc = "pep514" =>
            IsPrefix(handles, <<"python_key", "company_key", "tag_key", "inst_key">>)
    /\ pc \notin {"uninstall", "pep514"} => handles = <<>>
    /\ gpc \in {"start", "exhausted", "raised"} => handles = <<>>
    /\ (gpc = "yield" /\ pc = "uninstall") => Len(handles) = 2
    /\ (gpc = "yield" /\ pc = "pep514") => Len(handles) = 3

\* the conversion raised while the root, the company and the tag were open, after
\* an earlier entry was yielded
C10_Witness ==
    /\ pc = "pep514" /\ gpc = "raised"
    /\ raisedAt = "convert" /\ Len(yielded) >= 1 /\ handles = <<>>

====
